---- MODULE Spec2Model ----
(***************************************************************************)
(* A model of include/dropins/pthreadpp.h: the wrapper classes             *)
(* (wrapper_base, attr_wrapper, wrapper), the error-checked mutex object,   *)
(* fatal_error, and the two guards (mutex_wrapper_guard, mutex_guard).      *)
(*                                                                         *)
(* The pthread functions are the environment: every call returns a code     *)
(* chosen from Codes, and a call that returns zero has its effect on the    *)
(* primitive (init creates an object, destroy ends it, lock acquires,       *)
(* unlock releases).                                                        *)
(***************************************************************************)
EXTENDS Naturals, Integers, FiniteSets, Sequences, TLC

\* ------------------------------------------------------------------ bounds
MaxObj == 3
NumThreads == 2

\* ------------------------------------------------------- program constants
EPERM == 1
EBUSY == 16
EINVAL == 22

NULL == 0
Objs == 1..MaxObj
Threads == 1..NumThreads
NoThread == 0
\* The codes a pthread function may return.
Codes == {0, EPERM, EBUSY, EINVAL}
\* const AttributeType* attrs: null (default attributes) or an attribute object.
Attrs == {NULL, 1}
\* the pthread_mutex_t values a mutex object is constructed over or from
MutexObjs == {1, 2}

VARIABLES
    w,          \* the wrapper: [m_valid, m_object]
    wlife,      \* "alive" | "ended": the wrapper's own lifetime
    live,       \* the primitive objects initialised and not destroyed
    last,       \* what the last operation on the wrapper did
    prev,       \* what the operation before it did
    replay,     \* is_valid() as replayed by the rules of the specification
    replayCode, \* is_valid() as replayed with destroy keeping a failed object
    wkind,      \* "wrapper" | "attr_wrapper": the class of the wrapper
    origin,     \* where the content of m_object came from
    passed,     \* whether DestroyFn was called on it since: "no" | "failed" | "ok"
    mx,         \* the mutex object: "none" | "constructed" | "failed" | "destroyed"
    m_mutex,    \* mutex::m_mutex, a mutex_wrapper
    ctor,       \* how the mutex was constructed, and what InitFn returned
    owner,      \* the thread holding the pthread mutex of m_mutex
    gw,         \* a mutex_wrapper guarded by mutex_wrapper_guard
    gowner,     \* the thread holding the pthread mutex of gw
    pc,         \* per thread: "idle" | "cs" | "scope" | "wscope"
    guard,      \* per thread: the guard object of the scope it is in
    ev          \* the last call made, with the primitive's code and the outcome

wvars == <<w, wlife, live, last, prev, replay, replayCode, wkind, origin, passed>>
mvars == <<mx, m_mutex, ctor, owner, gw, gowner, pc, guard, ev>>
vars == <<wvars, mvars>>

\* ------------------------------------------------------------ wrapper_base

\* m_valid, m_object
Wrapper(valid, object) == [m_valid |-> valid, m_object |-> object]

\* const ObjectType* operator&() const
operator_addr_const(x) == IF x.m_valid THEN x.m_object ELSE NULL

\* A mutant of operator&: the address of m_object, valid or not.
operator_addr_unchecked(x) == x.m_object

\* ObjectType* operator&()
operator_addr(x) == IF x.m_valid THEN x.m_object ELSE NULL

is_valid(x) == x.m_valid

\* A mutant of destroy: the wrapper is marked invalid whatever DestroyFn returns.
destroy_always_invalid(x, error) ==
    IF ~x.m_valid
    THEN [w |-> x, ret |-> EINVAL, destroyed |-> <<>>]
    ELSE [w |-> [x EXCEPT !.m_valid = FALSE],
          ret |-> error, destroyed |-> <<x.m_object>>]

\* A mutant of destroy: the validity test is missing.
destroy_unguarded(x, error) ==
    [w |-> [x EXCEPT !.m_valid = (error # 0)],
     ret |-> error, destroyed |-> <<x.m_object>>]

\* A mutant of destroy: the new validity is inverted.
destroy_inverted(x, error) ==
    IF ~x.m_valid
    THEN [w |-> x, ret |-> EINVAL, destroyed |-> <<>>]
    ELSE [w |-> [x EXCEPT !.m_valid = (error = 0)],
          ret |-> error, destroyed |-> <<x.m_object>>]

\* A mutant of destroy: an invalid wrapper reports success.
destroy_invalid_ok(x, error) ==
    IF ~x.m_valid
    THEN [w |-> x, ret |-> 0, destroyed |-> <<>>]
    ELSE [w |-> [x EXCEPT !.m_valid = (error # 0)],
          ret |-> error, destroyed |-> <<x.m_object>>]

\* int destroy(): error is what DestroyFn(&m_object) returns when it is called;
\* destroyed lists the objects DestroyFn was called on.
destroy(x, error) ==
    IF ~x.m_valid
    THEN [w |-> x, ret |-> EINVAL, destroyed |-> <<>>]
    ELSE [w |-> [x EXCEPT !.m_valid = (error # 0)],
          ret |-> error, destroyed |-> <<x.m_object>>]

\* A mutant of attach: the held object is not destroyed first.
attach_no_destroy(x, object, error) ==
    [w |-> Wrapper(TRUE, object), destroyed |-> <<>>]

\* void attach(const ObjectType& object)
attach(x, object, error) ==
    LET d == destroy(x, error)
    IN  [w |-> Wrapper(TRUE, object), destroyed |-> d.destroyed]

\* A mutant of detach: the wrapper is left valid.
detach_keeps_valid(x) == [w |-> x, ret |-> x.m_object]

\* ObjectType detach()
detach(x) == [w |-> [x EXCEPT !.m_valid = FALSE], ret |-> x.m_object]

\* A mutant of init_done: the test of the init code is inverted.
init_done_inverted(x, init_error) ==
    [w |-> [x EXCEPT !.m_valid = (init_error # 0)], ret |-> init_error]

\* int init_done(int init_error)
init_done(x, init_error) ==
    [w |-> [x EXCEPT !.m_valid = (init_error = 0)], ret |-> init_error]

\* ObjectType* handle(): the address of m_object, valid or not
handle(x) == x.m_object

\* A mutant of init: the held object is not destroyed first.
wrapper_init_no_destroy(x, attrs, error, init_error, created) ==
    LET o == IF init_error = 0 THEN created ELSE handle(x)
        r == init_done([x EXCEPT !.m_object = o], init_error)
    IN  [w |-> r.w, ret |-> r.ret, destroyed |-> <<>>,
         initAttrs |-> attrs, initRet |-> init_error]

\* int init(const AttributeType* attrs=0): error is DestroyFn's code,
\* init_error is InitFn's, created the object a successful InitFn makes in place.
wrapper_init(x, attrs, error, init_error, created) ==
    LET d == destroy(x, error)
        o == IF init_error = 0 THEN created ELSE handle(d.w)
        r == init_done([d.w EXCEPT !.m_object = o], init_error)
    IN  [w |-> r.w, ret |-> r.ret, destroyed |-> d.destroyed,
         initAttrs |-> attrs, initRet |-> init_error]

\* attr_wrapper::init(): base::destroy(), then
\* base::init_done(InitFn(&base::handle())). handle() returns a pointer by
\* value, and & of that rvalue is ill-formed: the member compiles in no
\* program that calls it, so no build reaches DestroyFn or InitFn through it.
attr_wrapper_init(x) ==
    [w |-> x, ret |-> 0, destroyed |-> <<>>, ninit |-> 0]

\* The implicit destructor of wrapper_base, attr_wrapper and wrapper: the
\* classes declare none, so the members are dropped and nothing is called.
wrapper_dtor(x) == [w |-> x, destroyed |-> <<>>]

\* ------------------------------------------------- the primitive's objects

\* pthread_*_destroy returning code on each object of ds
AfterDestroy(ls, ds, code) ==
    IF code = 0 THEN ls \ {ds[i] : i \in 1..Len(ds)} ELSE ls

\* ---------------------------------------------------- actions on a wrapper

Op(op, x, ret, ds, dret, inits, attrs, iret) ==
    [op |-> op, wasValid |-> x.m_valid, held |-> x.m_object, ret |-> ret,
     ndestroy |-> Len(ds), destroyArg |-> IF ds = <<>> THEN NULL ELSE ds[1],
     destroyRet |-> IF ds = <<>> THEN 0 ELSE dret,
     ninit |-> inits, initAttrs |-> attrs, initRet |-> iret, arg |-> NULL]

NoOp == Op("ctor", Wrapper(FALSE, NULL), 0, <<>>, 0, 0, NULL, 0)

\* What is kept of the operation before the last one.
Before(l) ==
    [op |-> l.op, wasValid |-> l.wasValid, destroyRet |-> l.destroyRet,
     held |-> IF l.op = "detach" THEN l.held ELSE NULL,
     ret |-> IF l.op = "detach" THEN l.ret ELSE NULL,
     calls |-> l.ndestroy + l.ninit]

\* DestroyFn's effect on what is known of the object in m_object
Passed(was, ds, code) ==
    IF ds = <<>> THEN was ELSE IF code = 0 THEN "ok" ELSE "failed"

\* wrapper(): m_valid(false), m_object left uninitialised;
\* wrapper(initializer): m_valid(true), m_object(initializer).
InitWrapper ==
    /\ \E o \in Objs :
          \/ w = Wrapper(FALSE, o) /\ live = {}
          \/ w = Wrapper(TRUE, o) /\ live = {o}
    /\ wlife = "alive"
    /\ last = NoOp
    /\ prev = Before(NoOp)
    /\ replay = w.m_valid
    /\ replayCode = w.m_valid
    /\ wkind \in {"wrapper", "attr_wrapper"}
    /\ origin = IF w.m_valid THEN "ctor" ELSE "none"
    /\ passed = "no"

Destroy ==
    /\ wlife = "alive"
    /\ UNCHANGED mvars
    /\ \E error \in Codes :
          LET r == destroy(w, error)
          IN  /\ w' = r.w
              /\ live' = AfterDestroy(live, r.destroyed, error)
              /\ last' = Op("destroy", w, r.ret, r.destroyed, error, 0, NULL, 0)
              /\ replay' = FALSE
              /\ replayCode' = (w.m_valid /\ error # 0)
              /\ passed' = Passed(passed, r.destroyed, error)
    /\ prev' = Before(last)
    /\ UNCHANGED <<wlife, wkind, origin>>

Attach ==
    /\ wlife = "alive"
    /\ UNCHANGED mvars
    /\ \E object \in Objs, error \in Codes :
          LET r == attach(w, object, error)
          IN  /\ w' = r.w
              /\ live' = AfterDestroy(live, r.destroyed, error)
              /\ last' = [Op("attach", w, 0, r.destroyed, error, 0, NULL, 0)
                             EXCEPT !.arg = object]
    /\ replay' = TRUE
    /\ replayCode' = TRUE
    /\ origin' = "attach"
    /\ passed' = "no"
    /\ prev' = Before(last)
    /\ UNCHANGED <<wlife, wkind>>

Detach ==
    /\ wlife = "alive"
    /\ UNCHANGED mvars
    /\ LET r == detach(w)
       IN  /\ w' = r.w
           /\ last' = Op("detach", w, r.ret, <<>>, 0, 0, NULL, 0)
    /\ replay' = FALSE
    /\ replayCode' = FALSE
    /\ prev' = Before(last)
    /\ UNCHANGED <<wlife, live, wkind, origin, passed>>

\* init(attrs): InitFn succeeds only while the primitive has an object to give.
InitCall ==
    /\ wlife = "alive"
    /\ wkind = "wrapper"
    /\ UNCHANGED mvars
    /\ \E attrs \in Attrs, error \in Codes, init_error \in Codes :
          LET d == destroy(w, error)
              ls == AfterDestroy(live, d.destroyed, error)
          IN  \E created \in Objs :
                /\ init_error = 0 => created \notin ls
                /\ init_error # 0 => created = handle(w)
                /\ LET r == wrapper_init(w, attrs, error, init_error, created)
                   IN  /\ w' = r.w
                       /\ live' = IF init_error = 0 THEN ls \cup {created} ELSE ls
                       /\ last' = [Op("init", w, r.ret, r.destroyed, error, 1,
                                      r.initAttrs, r.initRet)
                                   EXCEPT !.arg = attrs]
                /\ replay' = (init_error = 0)
                /\ replayCode' = (init_error = 0)
                /\ origin' = IF init_error = 0 THEN "init" ELSE origin
                /\ passed' = IF init_error = 0 THEN "no"
                              ELSE Passed(passed, d.destroyed, error)
    /\ prev' = Before(last)
    /\ UNCHANGED <<wlife, wkind>>

\* a.init() on an attr_wrapper
AttrInitCall ==
    /\ wlife = "alive"
    /\ wkind = "attr_wrapper"
    /\ UNCHANGED mvars
    /\ LET r == attr_wrapper_init(w)
       IN  /\ w' = r.w
           /\ last' = Op("attr_init", w, r.ret, r.destroyed, 0, r.ninit, NULL, 0)
    /\ prev' = Before(last)
    /\ UNCHANGED <<wlife, live, replay, replayCode, wkind, origin, passed>>

\* &w, on a const or a mutable wrapper
AddressOf ==
    /\ wlife = "alive"
    /\ UNCHANGED mvars
    /\ \E const \in BOOLEAN :
          last' = [Op("operator&", w,
                      IF const THEN operator_addr_const(w) ELSE operator_addr(w),
                      <<>>, 0, 0, NULL, 0)
                   EXCEPT !.arg = IF const THEN 1 ELSE 0]
    /\ prev' = Before(last)
    /\ UNCHANGED <<w, wlife, live, replay, replayCode, wkind, origin, passed>>

\* Code outside the wrapper creates an object, to attach it later.
ExternalInit ==
    /\ wlife = "alive"
    /\ UNCHANGED mvars
    /\ \E o \in Objs \ live : live' = live \cup {o}
    /\ UNCHANGED <<w, wlife, last, prev, replay, replayCode, wkind, origin, passed>>

\* The wrapper's scope ends.
WrapperScopeEnd ==
    /\ wlife = "alive"
    /\ UNCHANGED mvars
    /\ LET r == wrapper_dtor(w)
       IN  /\ w' = r.w
           /\ live' = AfterDestroy(live, r.destroyed, 0)
           /\ last' = Op("dtor", w, 0, r.destroyed, 0, 0, NULL, 0)
    /\ wlife' = "ended"
    /\ prev' = Before(last)
    /\ UNCHANGED <<replay, replayCode, wkind, origin, passed>>

NextWrapper ==
    \/ Destroy
    \/ Attach
    \/ Detach
    \/ InitCall
    \/ AttrInitCall
    \/ AddressOf
    \/ ExternalInit
    \/ WrapperScopeEnd

\* -------------------------------------------------------------- fatal_error

NoException == [type |-> "none", m_error_code |-> 0]

\* A mutant of fatal_error: the code of the failing call is not kept.
fatal_error_code_lost(error_code) ==
    [type |-> "fatal_error", m_error_code |-> EINVAL]

\* fatal_error(int error_code): m_error_code(error_code)
fatal_error(error_code) ==
    [type |-> "fatal_error", m_error_code |-> error_code]

\* int error_code() const
error_code(e) == e.m_error_code

\* -------------------------------------------------------------------- mutex

\* A mutant of check_error: nothing is thrown.
check_error_silent(code) == NoException

\* static void check_error(int error_code): the exception thrown, if any
check_error(code) ==
    IF code # 0 THEN fatal_error(code) ELSE NoException

\* explicit mutex(const pthread_mutexattr_t* attrs=0): m_mutex is
\* default-constructed over uninitialised storage, then init(attrs) is checked.
mutex_ctor(storage, attrs, init_error, created) ==
    LET r == wrapper_init(Wrapper(FALSE, storage), attrs, 0, init_error, created)
    IN  [m_mutex |-> r.w, exc |-> check_error(r.ret), destroyed |-> r.destroyed]

\* A mutant of the second constructor: m_mutex is default-constructed.
mutex_ctor_initializer_dropped(initializer) ==
    [m_mutex |-> Wrapper(FALSE, initializer), exc |-> NoException]

\* explicit mutex(const pthread_mutex_t& initializer) throw()
mutex_ctor_initializer(initializer) ==
    [m_mutex |-> Wrapper(TRUE, initializer), exc |-> NoException]

\* ~mutex() throw(): error is DestroyFn's code, which is dropped
mutex_dtor(x, error) ==
    LET d == destroy(x, error)
    IN  [m_mutex |-> d.w, exc |-> NoException, destroyed |-> d.destroyed]

\* A mutant of lock: the code of pthread_mutex_lock is not checked.
mutex_lock_unchecked(code) == [exc |-> NoException]

\* void lock(): code is what pthread_mutex_lock(&m_mutex) returned
mutex_lock(code) == [exc |-> check_error(code)]

\* A mutant of trylock: EBUSY is not told apart from success.
mutex_trylock_busy_is_true(code) ==
    IF code = EBUSY
    THEN [exc |-> NoException, ret |-> TRUE]
    ELSE [exc |-> check_error(code), ret |-> check_error(code) = NoException]

\* bool trylock(): code is what pthread_mutex_trylock(&m_mutex) returned;
\* ret is the value returned when nothing is thrown
mutex_trylock(code) ==
    IF code = EBUSY
    THEN [exc |-> NoException, ret |-> FALSE]
    ELSE [exc |-> check_error(code), ret |-> check_error(code) = NoException]

\* void unlock(): code is what pthread_mutex_unlock(&m_mutex) returned
mutex_unlock(code) == [exc |-> check_error(code)]

\* pthread_mutex_t* handle(): &m_mutex, through wrapper_base::operator&
mutex_handle(x) == operator_addr(x)

\* ------------------------------------------------------------------- guards

NoGuard == [kind |-> "none", locks |-> 0, unlocks |-> 0, lockRet |-> 0]

\* A mutant of mutex_guard's constructor: the error of lock() is swallowed.
mutex_guard_ctor_swallows(code) ==
    [g |-> [kind |-> "mutex_guard", locks |-> 1, unlocks |-> 0, lockRet |-> code],
     exc |-> NoException]

\* explicit mutex_guard(mutex& m): one m_mutex.lock(), which may throw;
\* lockRet is the code that call got
mutex_guard_ctor(code) ==
    [g |-> [kind |-> "mutex_guard", locks |-> 1, unlocks |-> 0, lockRet |-> code],
     exc |-> mutex_lock(code).exc]

\* A mutant of ~mutex_guard: the unlock is missing.
mutex_guard_dtor_no_unlock(g, code) ==
    [g |-> g, called |-> FALSE, exc |-> NoException]

\* ~mutex_guard(): one m_mutex.unlock(), which may throw
mutex_guard_dtor(g, code) ==
    [g |-> [g EXCEPT !.unlocks = @ + 1], called |-> TRUE,
     exc |-> mutex_unlock(code).exc]

\* mutex_wrapper_guard(mutex_wrapper& m) throw() and
\* mutex_wrapper_guard(pthread_mutex_t* m) throw(): one pthread_mutex_lock,
\* its code dropped
mutex_wrapper_guard_ctor(code) ==
    [g |-> [kind |-> "mutex_wrapper_guard", locks |-> 1, unlocks |-> 0,
            lockRet |-> code],
     exc |-> NoException]

\* A mutant of ~mutex_wrapper_guard: no unlock after a lock that failed.
mutex_wrapper_guard_dtor_checked(g, code) ==
    IF g.lockRet # 0
    THEN [g |-> g, called |-> FALSE, exc |-> NoException]
    ELSE [g |-> [g EXCEPT !.unlocks = @ + 1], called |-> TRUE,
          exc |-> NoException]

\* ~mutex_wrapper_guard() throw(): one pthread_mutex_unlock, its code dropped
mutex_wrapper_guard_dtor(g, code) ==
    [g |-> [g EXCEPT !.unlocks = @ + 1], called |-> TRUE, exc |-> NoException]

\* ------------------------------------------------------ the pthread mutex
\* Each call on handle h by thread t, the mutex held by own: the set of
\* [code, owner] the call may end with.

\* pthread_mutex_lock: acquires a free mutex and returns zero, waits while it
\* is held, or fails with a nonzero code; a null handle is EINVAL.
pthread_mutex_lock(h, own, t) ==
    IF h = NULL
    THEN {[code |-> EINVAL, owner |-> own]}
    ELSE {[code |-> c, owner |-> own] : c \in Codes \ {0}}
         \cup (IF own = NoThread THEN {[code |-> 0, owner |-> t]} ELSE {})

\* pthread_mutex_trylock: as lock, but EBUSY at once when the mutex is held.
pthread_mutex_trylock(h, own, t) ==
    IF h = NULL
    THEN {[code |-> EINVAL, owner |-> own]}
    ELSE {[code |-> c, owner |-> own] : c \in Codes \ {0, EBUSY}}
         \cup (IF own = NoThread
               THEN {[code |-> 0, owner |-> t]}
               ELSE {[code |-> EBUSY, owner |-> own]})

\* pthread_mutex_unlock: the owner releases and gets zero, or fails with a
\* nonzero code; by a thread that does not hold the mutex it is undefined for
\* a default mutex: it fails, or it returns zero with the mutex released.
pthread_mutex_unlock(h, own, t) ==
    IF h = NULL
    THEN {[code |-> EINVAL, owner |-> own]}
    ELSE {[code |-> c, owner |-> own] : c \in Codes \ {0}}
         \cup {[code |-> 0, owner |-> NoThread]}

\* --------------------------------------------- actions on the mutex object

\* ret is the bool a call returned, ptr the pointer it returned
Event(t, op, code, exc, ret, ptr) ==
    [t |-> t, op |-> op, prim |-> code, exc |-> exc, ret |-> ret, ptr |-> ptr,
     how |-> "none", locks |-> 0, unlocks |-> 0, lockRet |-> 0]

GuardEvent(t, op, code, exc, how, g) ==
    [t |-> t, op |-> op, prim |-> code, exc |-> exc, ret |-> FALSE,
     ptr |-> NULL, how |-> how, locks |-> g.locks, unlocks |-> g.unlocks,
     lockRet |-> g.lockRet]

NoEvent == Event(NoThread, "none", 0, NoException, FALSE, NULL)

InitMutex ==
    /\ mx = "none"
    /\ m_mutex = Wrapper(FALSE, NULL)
    /\ ctor = [by |-> "none", initRet |-> 0]
    /\ owner = NoThread
    /\ \E valid \in BOOLEAN : gw = Wrapper(valid, 1)
    /\ gowner = NoThread
    /\ pc = [t \in Threads |-> "idle"]
    /\ guard = [t \in Threads |-> NoGuard]
    /\ ev = NoEvent

\* mutex m(attrs);
MutexConstruct ==
    /\ UNCHANGED wvars
    /\ mx = "none"
    /\ \E storage \in MutexObjs, attrs \in Attrs, init_error \in Codes,
          created \in MutexObjs :
          /\ init_error # 0 => created = storage
          /\ LET r == mutex_ctor(storage, attrs, init_error, created)
             IN  /\ m_mutex' = r.m_mutex
                 /\ mx' = IF r.exc = NoException THEN "constructed" ELSE "failed"
                 /\ ev' = Event(NoThread, "mutex(attrs)", init_error, r.exc, FALSE, NULL)
                 /\ ctor' = [by |-> "attrs", initRet |-> init_error]
    /\ UNCHANGED <<owner, gw, gowner, pc, guard>>

\* mutex m(initializer);
MutexConstructFrom ==
    /\ UNCHANGED wvars
    /\ mx = "none"
    /\ \E initializer \in MutexObjs :
          LET r == mutex_ctor_initializer(initializer)
          IN  /\ m_mutex' = r.m_mutex
              /\ mx' = IF r.exc = NoException THEN "constructed" ELSE "failed"
              /\ ev' = Event(NoThread, "mutex(initializer)", 0, r.exc, FALSE, NULL)
    /\ ctor' = [by |-> "initializer", initRet |-> 0]
    /\ UNCHANGED <<owner, gw, gowner, pc, guard>>

\* The mutex object's lifetime ends, no thread being inside a call or a scope.
MutexDestruct ==
    /\ UNCHANGED wvars
    /\ mx = "constructed"
    /\ \A t \in Threads : pc[t] = "idle"
    /\ \E error \in Codes :
          LET r == mutex_dtor(m_mutex, error)
          IN  /\ m_mutex' = r.m_mutex
              /\ ev' = Event(NoThread, "~mutex", error, r.exc, FALSE, NULL)
              /\ owner' = IF error = 0 THEN NoThread ELSE owner
    /\ mx' = "destroyed"
    /\ UNCHANGED <<ctor, gw, gowner, pc, guard>>

\* m.lock(); a lock()/unlock() pair opens its critical section
MutexLock(t) ==
    /\ UNCHANGED wvars
    /\ mx = "constructed" /\ pc[t] = "idle"
    /\ \E p \in pthread_mutex_lock(operator_addr(m_mutex), owner, t) :
          LET r == mutex_lock(p.code)
          IN  /\ owner' = p.owner
              /\ pc' = [pc EXCEPT ![t] = IF r.exc = NoException THEN "cs" ELSE "idle"]
              /\ ev' = Event(t, "lock", p.code, r.exc, FALSE, NULL)
    /\ UNCHANGED <<mx, m_mutex, ctor, gw, gowner, guard>>

\* if (m.trylock()) the critical section is entered
MutexTryLock(t) ==
    /\ UNCHANGED wvars
    /\ mx = "constructed" /\ pc[t] = "idle"
    /\ \E p \in pthread_mutex_trylock(operator_addr(m_mutex), owner, t) :
          LET r == mutex_trylock(p.code)
          IN  /\ owner' = p.owner
              /\ pc' = [pc EXCEPT ![t] =
                          IF r.exc = NoException /\ r.ret THEN "cs" ELSE "idle"]
              /\ ev' = Event(t, "trylock", p.code, r.exc,
                             r.exc = NoException /\ r.ret, NULL)
    /\ UNCHANGED <<mx, m_mutex, ctor, gw, gowner, guard>>

\* m.unlock(); closes the critical section; a throw leaves it as well
MutexUnlock(t) ==
    /\ UNCHANGED wvars
    /\ mx = "constructed" /\ pc[t] = "cs"
    /\ \E p \in pthread_mutex_unlock(operator_addr(m_mutex), owner, t) :
          LET r == mutex_unlock(p.code)
          IN  /\ owner' = p.owner
              /\ ev' = Event(t, "unlock", p.code, r.exc, FALSE, NULL)
    /\ pc' = [pc EXCEPT ![t] = "idle"]
    /\ UNCHANGED <<mx, m_mutex, ctor, gw, gowner, guard>>

\* m.handle()
MutexHandle(t) ==
    /\ UNCHANGED wvars
    /\ mx = "constructed"
    /\ ev' = Event(t, "handle", 0, NoException, FALSE, mutex_handle(m_mutex))
    /\ UNCHANGED <<mx, m_mutex, ctor, owner, gw, gowner, pc, guard>>

\* { mutex_guard g(m); ...
GuardEnter(t) ==
    /\ UNCHANGED wvars
    /\ mx = "constructed" /\ pc[t] = "idle"
    /\ \E p \in pthread_mutex_lock(operator_addr(m_mutex), owner, t) :
          LET r == mutex_guard_ctor(p.code)
          IN  /\ owner' = p.owner
              /\ pc' = [pc EXCEPT ![t] =
                          IF r.exc = NoException THEN "scope" ELSE "idle"]
              /\ guard' = [guard EXCEPT ![t] =
                          IF r.exc = NoException THEN r.g ELSE NoGuard]
              /\ ev' = GuardEvent(t, "mutex_guard", p.code, r.exc, "none", r.g)
    /\ UNCHANGED <<mx, m_mutex, ctor, gw, gowner>>

\* ... } the scope is left by its end, a return or a throw: ~mutex_guard runs
GuardLeave(t) ==
    /\ UNCHANGED wvars
    /\ mx = "constructed" /\ pc[t] = "scope"
    /\ \E how \in {"end", "return", "throw"} :
       \E p \in pthread_mutex_unlock(operator_addr(m_mutex), owner, t) :
          LET r == mutex_guard_dtor(guard[t], p.code)
          IN  /\ owner' = IF r.called THEN p.owner ELSE owner
              /\ ev' = GuardEvent(t, "~mutex_guard", p.code, r.exc, how, r.g)
    /\ pc' = [pc EXCEPT ![t] = "idle"]
    /\ guard' = [guard EXCEPT ![t] = NoGuard]
    /\ UNCHANGED <<mx, m_mutex, ctor, gw, gowner>>

\* { mutex_wrapper_guard g(gw); ...
WrapperGuardEnter(t) ==
    /\ UNCHANGED wvars
    /\ pc[t] = "idle"
    /\ \E p \in pthread_mutex_lock(operator_addr(gw), gowner, t) :
          LET r == mutex_wrapper_guard_ctor(p.code)
          IN  /\ gowner' = p.owner
              /\ pc' = [pc EXCEPT ![t] =
                          IF r.exc = NoException THEN "wscope" ELSE "idle"]
              /\ guard' = [guard EXCEPT ![t] =
                          IF r.exc = NoException THEN r.g ELSE NoGuard]
              /\ ev' = GuardEvent(t, "mutex_wrapper_guard", p.code, r.exc,
                                  "none", r.g)
    /\ UNCHANGED <<mx, m_mutex, ctor, owner, gw>>

\* ... } ~mutex_wrapper_guard runs on every way out
WrapperGuardLeave(t) ==
    /\ UNCHANGED wvars
    /\ pc[t] = "wscope"
    /\ \E how \in {"end", "return", "throw"} :
       \E p \in pthread_mutex_unlock(operator_addr(gw), gowner, t) :
          LET r == mutex_wrapper_guard_dtor(guard[t], p.code)
          IN  /\ gowner' = IF r.called THEN p.owner ELSE gowner
              /\ ev' = GuardEvent(t, "~mutex_wrapper_guard", p.code, r.exc,
                                  how, r.g)
    /\ pc' = [pc EXCEPT ![t] = "idle"]
    /\ guard' = [guard EXCEPT ![t] = NoGuard]
    /\ UNCHANGED <<mx, m_mutex, ctor, owner, gw>>

NextMutex ==
    \/ MutexConstruct
    \/ MutexConstructFrom
    \/ MutexDestruct
    \/ \E t \in Threads : MutexLock(t)
    \/ \E t \in Threads : MutexTryLock(t)
    \/ \E t \in Threads : MutexUnlock(t)
    \/ \E t \in Threads : MutexHandle(t)
    \/ \E t \in Threads : GuardEnter(t)
    \/ \E t \in Threads : GuardLeave(t)
    \/ \E t \in Threads : WrapperGuardEnter(t)
    \/ \E t \in Threads : WrapperGuardLeave(t)

\* ----------------------------------------------------------- specifications

\* A wrapper on its own: no mutex object exists.
InitSpecWrapper ==
    /\ InitWrapper
    /\ InitMutex
    /\ gw = Wrapper(FALSE, 1)

SpecWrapper == InitSpecWrapper /\ [][NextWrapper]_vars

\* A mutex object and its threads: no other wrapper exists.
InitSpecMutex ==
    /\ InitMutex
    /\ InitWrapper
    /\ w = Wrapper(FALSE, 1)
    /\ wkind = "wrapper"

SpecMutex == InitSpecMutex /\ [][NextMutex]_vars

\* -------------------------------------------------- claims on the wrapper

C4_ScopeEndDestroys ==
    last.op = "dtor" =>
        IF last.wasValid
        THEN last.ndestroy = 1 /\ last.destroyArg = last.held
        ELSE last.ndestroy = 0

C12_DestroyInvalid ==
    (last.op = "destroy" /\ ~last.wasValid) =>
        /\ last.ret = EINVAL
        /\ last.ndestroy = 0
        /\ ~is_valid(w)
        /\ w.m_object = last.held

C12_Witness ==
    /\ prev.op = "detach" /\ prev.wasValid
    /\ last.op = "destroy" /\ ~last.wasValid /\ last.ret = EINVAL
    /\ w.m_object \in live

\* C13: on a valid wrapper, detach() followed at once by attach() of the value
\* detach returned leaves the wrapper valid and holding the same object, and
\* neither call calls InitFn or DestroyFn.
C13_DetachAttach ==
    (/\ prev.op = "detach" /\ prev.wasValid
     /\ last.op = "attach" /\ last.arg = prev.ret) =>
        /\ prev.ret = prev.held
        /\ is_valid(w)
        /\ w.m_object = prev.held
        /\ prev.calls = 0
        /\ last.ndestroy = 0 /\ last.ninit = 0
        /\ ~last.wasValid

C13_Witness ==
    /\ prev.op = "detach" /\ prev.wasValid
    /\ last.op = "attach" /\ last.arg = prev.ret
    /\ is_valid(w) /\ w.m_object = prev.held /\ last.ndestroy = 0

\* C14: operator&, const and mutable, returns null exactly when is_valid() is
\* false and the address of the held object exactly when it is true.
C14_AddressOf ==
    /\ last.op = "operator&" =>
          /\ last.ret = NULL <=> ~is_valid(w)
          /\ is_valid(w) => last.ret = w.m_object
          /\ last.ret # NULL => (last.ret = w.m_object /\ is_valid(w))
    /\ operator_addr(w) = NULL <=> ~is_valid(w)
    /\ operator_addr_const(w) = NULL <=> ~is_valid(w)

C14_Witness ==
    /\ last.op = "operator&" /\ last.arg = 0 /\ last.ret = NULL
    /\ ~is_valid(w) /\ prev.op = "destroy" /\ prev.wasValid

\* C15: init(), of a wrapper and of an attr_wrapper, calls DestroyFn on the
\* held object first when the wrapper is valid, then calls InitFn once with
\* the attributes it was given, returns InitFn's code and leaves the wrapper
\* valid exactly when that code is zero.
C15_InitDestroysThenInits ==
    last.op \in {"init", "attr_init"} =>
        /\ last.ndestroy = (IF last.wasValid THEN 1 ELSE 0)
        /\ last.wasValid => last.destroyArg = last.held
        /\ last.ninit = 1
        /\ last.initAttrs = last.arg
        /\ last.ret = last.initRet
        /\ is_valid(w) <=> (last.initRet = 0)

\* C16: attach(object) calls DestroyFn exactly once on the held object when
\* the wrapper was valid and not at all when it was invalid, whatever DestroyFn
\* returns, and leaves the wrapper valid and holding object.
C16_Attach ==
    last.op = "attach" =>
        /\ last.ndestroy = (IF last.wasValid THEN 1 ELSE 0)
        /\ last.wasValid => last.destroyArg = last.held
        /\ last.ninit = 0
        /\ is_valid(w)
        /\ w.m_object = last.arg

C16_Witness ==
    /\ last.op = "attach" /\ last.wasValid
    /\ last.ndestroy = 1 /\ last.destroyRet = EPERM
    /\ is_valid(w) /\ w.m_object = last.arg /\ last.arg # last.held

\* C19: init, attach, detach and destroy never overwrite or forget an object
\* held while valid without calling DestroyFn on it (init, attach, destroy) or
\* returning it (detach), and none of them calls DestroyFn while the wrapper is
\* invalid.
C19_NoSilentDrop ==
    last.op \in {"init", "attach", "detach", "destroy"} =>
        /\ (last.wasValid /\ last.op # "detach") =>
              last.ndestroy = 1 /\ last.destroyArg = last.held
        /\ (last.wasValid /\ last.op = "detach") => last.ret = last.held
        /\ (last.wasValid /\ last.ndestroy = 0 /\ last.op # "detach") =>
              (is_valid(w) /\ w.m_object = last.held)
        /\ last.ndestroy > 0 => last.wasValid

C19_Witness ==
    /\ last.op = "init" /\ last.wasValid
    /\ last.ndestroy = 1 /\ last.destroyArg = last.held /\ last.destroyRet # 0
    /\ is_valid(w) /\ w.m_object # last.held

\* --------------------------------------------- claims on the mutex object

\* C5: mutex(attrs) throws fatal_error carrying exactly InitFn's code when
\* that code is nonzero, and then no mutex object exists to be used; when the
\* code is zero it completes without throwing and m_mutex is valid.
C5_ConstructFromAttrs ==
    /\ ev.op = "mutex(attrs)" =>
          IF ev.prim # 0
          THEN /\ mx = "failed"
               /\ ev.exc.type = "fatal_error"
               /\ error_code(ev.exc) = ev.prim
          ELSE /\ mx = "constructed"
               /\ ev.exc = NoException
               /\ is_valid(m_mutex)
    /\ mx = "failed" =>
          /\ ctor.by = "attrs" /\ ctor.initRet # 0
          /\ ev.op \notin {"lock", "trylock", "unlock", "handle",
                           "mutex_guard", "~mutex_guard", "~mutex"}
          /\ \A t \in Threads : pc[t] \notin {"cs", "scope"}
          /\ owner = NoThread
    /\ (ctor.by = "attrs" /\ mx = "constructed") =>
          ctor.initRet = 0 /\ is_valid(m_mutex)

C5_Witness ==
    /\ mx = "failed" /\ ev.op = "mutex(attrs)"
    /\ ev.prim = EBUSY /\ error_code(ev.exc) = EBUSY

\* C6: trylock() returns false without throwing when pthread_mutex_trylock
\* reports EBUSY (the mutex is held), returns true with the caller holding the
\* mutex when it returns zero, throws fatal_error with the exact code for any
\* other result, and never returns true without the lock acquired.
C6_TryLock ==
    ev.op = "trylock" =>
        /\ ev.prim = EBUSY =>
              ev.exc = NoException /\ ~ev.ret /\ owner # NoThread
        /\ ev.prim = 0 =>
              ev.exc = NoException /\ ev.ret /\ owner = ev.t /\ pc[ev.t] = "cs"
        /\ ev.prim \notin {0, EBUSY} =>
              /\ ev.exc.type = "fatal_error"
              /\ error_code(ev.exc) = ev.prim
              /\ ~ev.ret
        /\ ev.ret => (ev.prim = 0 /\ owner = ev.t)

C6_Witness ==
    /\ ev.op = "trylock" /\ ev.prim = EBUSY /\ ~ev.ret
    /\ ev.exc = NoException
    /\ \E u \in Threads \ {ev.t} : owner = u /\ pc[u] = "cs"

\* C7: lock() and unlock() throw fatal_error carrying exactly the code the
\* pthread call returned when it is nonzero, return normally when it is zero,
\* and raise nothing else.
C7_LockUnlockThrow ==
    ev.op \in {"lock", "unlock"} =>
        /\ ev.exc.type \in {"none", "fatal_error"}
        /\ ev.prim # 0 =>
              ev.exc.type = "fatal_error" /\ error_code(ev.exc) = ev.prim
        /\ ev.prim = 0 => ev.exc = NoException

C7_Witness ==
    /\ ev.op = "unlock" /\ ev.prim = EPERM
    /\ ev.exc.type = "fatal_error" /\ error_code(ev.exc) = EPERM

C9_MutualExclusion ==
    /\ Cardinality({t \in Threads : pc[t] \in {"cs", "scope"}}) <= 1
    /\ \A t \in Threads : pc[t] \in {"cs", "scope"} => owner = t

C9_Witness ==
    \E t \in Threads :
        /\ pc[t] = "scope"
        /\ ev.t # t /\ ev.op = "trylock" /\ ev.prim = EBUSY
        /\ pc[ev.t] = "idle"

\* C10: from the end of either constructor to the destructor m_mutex is valid
\* and handle() is not null, whatever lock, trylock, unlock and handle calls
\* were made and whatever codes the pthread calls returned.
C10_ConstructedIsValid ==
    mx = "constructed" =>
        /\ is_valid(m_mutex)
        /\ mutex_handle(m_mutex) # NULL
        /\ ev.op = "handle" => ev.ptr = m_mutex.m_object /\ ev.ptr # NULL

C10_Witness ==
    /\ mx = "constructed" /\ ctor.by = "initializer"
    /\ ev.op = "lock" /\ ev.prim # 0 /\ ev.exc # NoException
    /\ is_valid(m_mutex)

\* C17: mutex_guard lets errors through: a nonzero code from the lock at
\* construction is thrown as fatal_error with that code and the guard, never
\* constructed, makes no unlock; a nonzero code from the unlock at destruction
\* is thrown as fatal_error with that code from the destructor.
C17_GuardPropagates ==
    /\ ev.op = "mutex_guard" =>
          IF ev.prim # 0
          THEN /\ ev.exc.type = "fatal_error"
               /\ error_code(ev.exc) = ev.prim
               /\ pc[ev.t] = "idle"
               /\ guard[ev.t] = NoGuard
               /\ ev.unlocks = 0
          ELSE ev.exc = NoException /\ pc[ev.t] = "scope"
    /\ ev.op = "~mutex_guard" =>
          /\ ev.lockRet = 0
          /\ ev.unlocks = 1
          /\ ev.prim # 0 =>
                ev.exc.type = "fatal_error" /\ error_code(ev.exc) = ev.prim
          /\ ev.prim = 0 => ev.exc = NoException
    /\ \A t \in Threads : pc[t] = "scope" => guard[t].lockRet = 0

C17_Witness ==
    /\ ev.op = "mutex_guard" /\ ev.prim = EINVAL
    /\ ev.exc.type = "fatal_error" /\ error_code(ev.exc) = EINVAL
    /\ pc[ev.t] = "idle" /\ guard[ev.t] = NoGuard

\* C18: mutex_wrapper_guard drops the codes of lock and unlock: neither its
\* construction nor its destruction throws, the scope is entered whatever the
\* lock returned (nonzero on the null handle of an invalid mutex_wrapper), and
\* the destructor makes its one unlock call also after a lock that failed.
C18_WrapperGuardIgnoresErrors ==
    /\ ev.op = "mutex_wrapper_guard" =>
          /\ ev.exc = NoException
          /\ pc[ev.t] = "wscope"
          /\ guard[ev.t].lockRet = ev.prim
          /\ ~is_valid(gw) => (ev.prim # 0 /\ gowner = NoThread)
    /\ ev.op = "~mutex_wrapper_guard" =>
          /\ ev.exc = NoException
          /\ ev.locks = 1
          /\ ev.unlocks = 1
          /\ pc[ev.t] = "idle"

C18_Witness ==
    /\ ev.op = "~mutex_wrapper_guard" /\ ev.how = "throw"
    /\ ~is_valid(gw) /\ ev.lockRet = EINVAL /\ ev.prim = EINVAL
    /\ ev.unlocks = 1 /\ ev.exc = NoException /\ gowner = NoThread

====
